---- MODULE Spec2Model ----
(***************************************************************************)
(* Model of the captioning scripts of the repository:                      *)
(*   datasets/add_caption_biomedparse_improved.py  (script "improved")     *)
(*   datasets/add_caption_biomedparse.py           (script "parallel")     *)
(*   datasets/add_caption_ACDC.py                  (script "acdc")         *)
(* in Spec (one mask folder) and SpecMain (improved over two folders), of  *)
(*   datasets/add_simple_caption_biomedparse.py    in SpecSimple           *)
(* and of the media converter conversion.py        in SpecConvert.         *)
(*                                                                         *)
(* Text (file content, captions, paths) is a sequence of tokens.  A token  *)
(* is either one separator character (" ", "\n", "_", "+", ".", "/") or a  *)
(* word: a non-empty run of other characters, written as one string.  The  *)
(* vocabulary is chosen so that "mask" occurs only as a whole word; the    *)
(* Python string functions are computed on token sequences.                *)
(***************************************************************************)
EXTENDS Integers, Sequences, FiniteSets, TLC

\* ------------------------------------------------------------------ text

WS == {" ", "\n"}

RECURSIVE lstrip(_)
lstrip(s) == IF s # <<>> /\ Head(s) \in WS THEN lstrip(Tail(s)) ELSE s

RECURSIVE rstrip(_)
rstrip(s) ==
  IF s # <<>> /\ s[Len(s)] \in WS THEN rstrip(SubSeq(s, 1, Len(s) - 1)) ELSE s

\* str.strip()
strip(s) == rstrip(lstrip(s))

\* length of the leading run of non-whitespace tokens
RECURSIVE wordLen(_)
wordLen(s) == IF s = <<>> \/ Head(s) \in WS THEN 0 ELSE 1 + wordLen(Tail(s))

\* str.split() with no argument: the list of maximal non-whitespace runs
RECURSIVE split_ws(_)
split_ws(s) ==
  LET t == lstrip(s) IN
  IF t = <<>> THEN <<>>
  ELSE <<SubSeq(t, 1, wordLen(t))>> \o split_ws(SubSeq(t, wordLen(t) + 1, Len(t)))

count_words(text) == Len(split_ws(strip(text)))

\* index of the last occurrence of token c in s, 0 when there is none
RECURSIVE rfind(_, _)
rfind(s, c) ==
  IF s = <<>> THEN 0
  ELSE IF s[Len(s)] = c THEN Len(s) ELSE rfind(SubSeq(s, 1, Len(s) - 1), c)

\* os.path.basename
basename(p) == SubSeq(p, rfind(p, "/") + 1, Len(p))

\* os.path.splitext(p)[0]: the path without the extension of its last component
\* (a dot that starts the component does not begin an extension)
splitext_root(p) ==
  LET i == rfind(p, ".") IN
  IF i > rfind(p, "/") + 1 THEN SubSeq(p, 1, i - 1) ELSE p

IsPrefix(old, s) == Len(old) <= Len(s) /\ SubSeq(s, 1, Len(old)) = old

\* str.replace(old, new): every non-overlapping occurrence, left to right
RECURSIVE replace(_, _, _)
replace(s, old, new) ==
  IF s = <<>> THEN <<>>
  ELSE IF IsPrefix(old, s)
       THEN new \o replace(SubSeq(s, Len(old) + 1, Len(s)), old, new)
       ELSE <<Head(s)>> \o replace(Tail(s), old, new)

\* str.split(sep) for a one-token separator: always at least one part
RECURSIVE split_on(_, _)
split_on(s, sep) ==
  LET RECURSIVE firstAt(_, _)
      firstAt(t, i) ==
        IF i > Len(t) THEN 0 ELSE IF t[i] = sep THEN i ELSE firstAt(t, i + 1)
      k == firstAt(s, 1)
  IN IF k = 0 THEN <<s>>
     ELSE <<SubSeq(s, 1, k - 1)>> \o split_on(SubSeq(s, k + 1, Len(s)), sep)


\* ------------------------------------------------------------------ files

\* A file: absent, present but not readable as text, or present with content.
Absent == [exists |-> FALSE, readable |-> FALSE, data |-> <<>>]

Unreadable == [exists |-> TRUE, readable |-> FALSE, data |-> <<>>]

File(text) == [exists |-> TRUE, readable |-> TRUE, data |-> text]

\* The masks of the folder, as sorted(glob.glob(mask_dir/*.png)) returns them.
MaskDir == <<"root", "/", "ACDC", "/", "train", "_", "mask">>

Mask1 == MaskDir \o <<"/", "p1", "_", "MRI", "_", "heart", "_", "lv", ".", "png">>

Mask2 == MaskDir \o
  <<"/", "p1", "_", "T1", "_", "brain", "_", "left", "+", "ventricle", ".", "png">>

mask_paths == <<Mask1, Mask2>>

Tasks == 1..Len(mask_paths)

\* The directories of the dataset: the image folder and the mask folder of the
\* train and the test split, and the caption folders the scripts create.
ImgDir == <<"root", "/", "ACDC", "/", "train">>

TestMaskDir == <<"root", "/", "ACDC", "/", "test", "_", "mask">>

TestImgDir == <<"root", "/", "ACDC", "/", "test">>

MaskDirs == {MaskDir, TestMaskDir}

\* os.path.dirname
dirname(p) == SubSeq(p, 1, rfind(p, "/") - 1)

\* sorted(glob.glob(mask_dir/*.png)): both mask folders hold the same names
masks_in(mask_dir) ==
  [t \in Tasks |-> mask_dir \o <<"/">> \o basename(mask_paths[t])]

\* Texts the remote service may answer with (before any stripping).
EmptyText == <<>>

TwoWords == <<" ", "Segment", " ", "it", "\n">>

SevenWords ==
  <<"Please", " ", "segment", " ", "the", " ", "left", " ", "ventricle", " ",
    "right", " ", "now">>

Responses == {EmptyText, TwoWords, SevenWords}

\* ------------------------------------------------------------------ state

VARIABLES
  script,             \* which script runs: "improved", "parallel" or "acdc"
  stub,               \* behaviour of the remote service in this run
  CONCURRENCY,        \* LLM_CONCURRENCY, the semaphore's initial value
  MAX_CAPTION_WORDS,  \* improved: the configured word limit
  FORCE_REGEN,        \* improved: the force-regeneration flag
  fs,                 \* the caption files: path -> file
  sem,                \* asyncio.Semaphore._value
  task,               \* per mask: the coroutine's position and locals
  doneq,              \* as_completed's queue of finished tasks
  completed,          \* iterations of the scheduler loop that returned
  sched,              \* the scheduler loop: "running", "done" or "raised"
  run,                \* 1 for the first run of the script, 2 for the re-run
  writes,             \* caption files written so far in this run
  validAtStart,       \* every caption file was valid when this run started
  probe,              \* result of a stand-alone call of caption_needs_regen
  derived,            \* the masks two tasks were given, and what the path and
                      \* label helpers returned for those already handled
  shard,              \* shard builders: the loop over the masks, its counters,
                      \* the keys written to the sink and the local copies
  credential,         \* "AZURE_API_KEY" in os.environ
  dirs,               \* the directories that exist
  entries,            \* the mask folders the driver found, in processing order
  folder,             \* index in entries of the folder being processed
  finished,           \* the folders already left, with their tasks at that time
  summary,            \* the item totals the driver has printed at its end
  overwrite,          \* simple: args.overwrite
  txt_exists,         \* simple: per mask, its simple caption file exists
  future,             \* simple: per mask, the state of its future
  total_seen,         \* simple: main's counter of masks found
  total_written,      \* simple: main's counter of captions written
  simple_pc,          \* simple: main's position: "start", "folder" or "end"
  args,               \* conversion: args.dry_run and args.skip_if_exists
  ffmpeg,             \* conversion: ffmpeg_available()
  disk,               \* conversion: the files under root that exist
  stats,              \* conversion: the Stats object
  conv                \* conversion: main's position, the files still to
                      \* convert, and how the last loop body ended

\* the state of add_simple_caption_biomedparse and of conversion
others == <<overwrite, txt_exists, future, total_seen, total_written, simple_pc,
            args, ffmpeg, disk, stats, conv>>

vars == <<script, stub, CONCURRENCY, MAX_CAPTION_WORDS, FORCE_REGEN, fs, sem,
          task, doneq, completed, sched, run, writes, validAtStart, probe,
          derived, shard,
          credential, dirs, entries, folder, finished, summary, others>>

\* ent["mask_dir"] of the loop of main; mask_root in the two older scripts
mask_dir == entries[folder]

\* ------------------------------------------- add_caption_biomedparse_improved

\* the raw modality token names an MRI sequence (T1, T2, FLAIR, ADC)
IsSequenceName(raw_mod) ==
  \E i \in 1..Len(raw_mod) :
    raw_mod[i] \in {"T1", "T2", "FLAIR", "ADC", "t1", "t2", "flair", "adc", "T1w"}

\* variant: the label is the final token as it is written in the file name
extract_metadata_from_filename_verbatim(mask_path) ==
  LET stem  == splitext_root(basename(mask_path))
      parts == split_on(stem, "_")
      n     == Len(parts)
      raw_mod == IF n >= 3 THEN parts[n - 2] ELSE <<"imaging">>
      isSeq == IsSequenceName(raw_mod)
  IN [target   |-> parts[n],
      site     |-> IF n >= 2 THEN parts[n - 1] ELSE <<"region">>,
      modality |-> IF isSeq THEN <<"MRI">> ELSE raw_mod,
      sequence |-> IF isSeq THEN raw_mod ELSE <<>>]

extract_metadata_from_filename(mask_path) ==
  LET stem  == splitext_root(basename(mask_path))
      parts == split_on(stem, "_")
      n     == Len(parts)
      raw_mod == IF n >= 3 THEN parts[n - 2] ELSE <<"imaging">>
      isSeq == IsSequenceName(raw_mod)
  IN [target   |-> replace(parts[n], <<"+">>, <<" ">>),
      site     |-> IF n >= 2 THEN parts[n - 1] ELSE <<"region">>,
      modality |-> IF isSeq THEN <<"MRI">> ELSE raw_mod,
      sequence |-> IF isSeq THEN raw_mod ELSE <<>>]

\* variant: ".txt" is appended to the whole file name, extension included
mask_to_caption_path_appending(mask_path) ==
  replace(mask_path \o <<".", "txt">>, <<"_", "mask">>, <<"_", "caption">>)

mask_to_caption_path(mask_path) ==
  replace(splitext_root(mask_path) \o <<".", "txt">>,
          <<"_", "mask">>, <<"_", "caption">>)

\* variant: a caption of exactly MAX_CAPTION_WORDS words counts as too long
caption_needs_regen_inclusive(caption_path) ==
  LET f == fs[caption_path]
      content == strip(f.data)
  IN IF FORCE_REGEN THEN [needs |-> TRUE, reason |-> "force_regen"]
     ELSE IF ~f.exists THEN [needs |-> TRUE, reason |-> "missing"]
     ELSE IF ~f.readable THEN [needs |-> TRUE, reason |-> "unreadable"]
     ELSE IF content = <<>> THEN [needs |-> TRUE, reason |-> "empty"]
     ELSE IF count_words(content) >= MAX_CAPTION_WORDS
          THEN [needs |-> TRUE, reason |-> "too_long"]
     ELSE [needs |-> FALSE, reason |-> ""]

\* variant: the filter without the FORCE_REGEN test
caption_needs_regen_unforced(caption_path) ==
  LET f == fs[caption_path]
      content == strip(f.data)
  IN IF ~f.exists THEN [needs |-> TRUE, reason |-> "missing"]
     ELSE IF ~f.readable THEN [needs |-> TRUE, reason |-> "unreadable"]
     ELSE IF content = <<>> THEN [needs |-> TRUE, reason |-> "empty"]
     ELSE IF count_words(content) > MAX_CAPTION_WORDS
          THEN [needs |-> TRUE, reason |-> "too_long"]
     ELSE [needs |-> FALSE, reason |-> ""]

\* (needs_regen, reason) for the caption file at caption_path
caption_needs_regen(caption_path) ==
  LET f == fs[caption_path]
      content == strip(f.data)
  IN IF FORCE_REGEN THEN [needs |-> TRUE, reason |-> "force_regen"]
     ELSE IF ~f.exists THEN [needs |-> TRUE, reason |-> "missing"]
     ELSE IF ~f.readable THEN [needs |-> TRUE, reason |-> "unreadable"]
     ELSE IF content = <<>> THEN [needs |-> TRUE, reason |-> "empty"]
     ELSE IF count_words(content) > MAX_CAPTION_WORDS
          THEN [needs |-> TRUE, reason |-> "too_long"]
     ELSE [needs |-> FALSE, reason |-> ""]

\* variant: only an empty caption is invalid
caption_invalid_empty_only(caption) == caption = <<>>

\* the caption is empty or longer than the limit (lines 212 and 221)
caption_invalid(caption) ==
  caption = <<>> \/ count_words(caption) > MAX_CAPTION_WORDS

\* f"Segment {target} in {site} {modality}".strip()
fallback_caption(mask_path) ==
  LET m == extract_metadata_from_filename(mask_path)
  IN strip(<<"Segment", " ">> \o m.target \o <<" ", "in", " ">> \o m.site
           \o <<" ">> \o m.modality)

\* the fallback caption of each mask of the folder
Fallbacks == [t \in Tasks |-> fallback_caption(mask_paths[t])]


\* ------------------------------------------------------- add_caption_ACDC,
\* ------------------------------------------------------ add_caption_biomedparse

\* worker: only the first path segment that ends in "_mask" is rewritten
mask_to_caption_txt_path(mask_path) ==
  LET txt_path == splitext_root(mask_path) \o <<".", "txt">>
      parts    == split_on(txt_path, "/")
      ends(p)  == Len(p) >= 2 /\ SubSeq(p, Len(p) - 1, Len(p)) = <<"_", "mask">>
      hits     == {i \in 1..Len(parts) : ends(parts[i])}
      first    == CHOOSE i \in hits : \A j \in hits : i <= j
      RECURSIVE join(_, _)
      join(ps, i) ==
        IF i > Len(ps) THEN <<>>
        ELSE (IF i > 1 THEN <<"/">> ELSE <<>>)
             \o (IF hits # {} /\ i = first
                 THEN replace(ps[i], <<"_", "mask">>, <<"_", "caption">>)
                 ELSE ps[i])
             \o join(ps, i + 1)
  IN join(parts, 1)

\* generate_questions_for_masks: every "mask" of the path becomes "caption"
acdc_question_txt_path(mask_path) ==
  replace(splitext_root(mask_path) \o <<".", "txt">>, <<"mask">>, <<"caption">>)

\* the caption file of each mask of each folder, as each script derives it
OutPaths ==
  [s \in {"improved", "parallel", "acdc"} |->
    [d \in MaskDirs |->
      [t \in Tasks |->
        CASE s = "improved" -> mask_to_caption_path(masks_in(d)[t])
          [] s = "parallel" -> mask_to_caption_txt_path(masks_in(d)[t])
          [] OTHER          -> acdc_question_txt_path(masks_in(d)[t])]]]

\* the caption file of mask t of folder d in the running script
OutPathIn(d, t) == OutPaths[script][d][t]

\* the caption file of a mask of the folder being processed
OutPath(t) == OutPathIn(mask_dir, t)

CaptionPaths ==
  UNION {{OutPaths[s][d][t] : s \in {"improved", "parallel", "acdc"}} :
         d \in MaskDirs, t \in Tasks}

\* the caption files of the test split
TestCaptionPaths ==
  {OutPaths[s][TestMaskDir][t] : s \in {"improved", "parallel", "acdc"},
                                 t \in Tasks}

\* the folder every script writes the captions of the train split to
CaptionDir == dirname(OutPaths["improved"][MaskDir][1])

\* ------------------------------------------------------- folder discovery

\* The words and separators of the directory names in the order of their
\* characters, which is the order Python compares strings in.
PathTokens == <<"/", "ACDC", "_", "caption", "mask", "root", "test", "train">>

Rank(tok) == CHOOSE i \in 1..Len(PathTokens) : PathTokens[i] = tok

\* a < b for two str
RECURSIVE str_lt(_, _)
str_lt(a, b) ==
  IF b = <<>> THEN FALSE
  ELSE IF a = <<>> THEN TRUE
  ELSE IF Head(a) = Head(b) THEN str_lt(Tail(a), Tail(b))
  ELSE Rank(Head(a)) < Rank(Head(b))

\* list.sort(): insertion of each element before the first larger one
RECURSIVE sorted(_)
sorted(l) ==
  IF l = <<>> THEN <<>>
  ELSE LET rest == sorted(SubSeq(l, 1, Len(l) - 1))
           x == l[Len(l)]
           k == Cardinality({i \in 1..Len(rest) : ~str_lt(x, rest[i])})
       IN SubSeq(rest, 1, k) \o <<x>> \o SubSeq(rest, k + 1, Len(rest))

\* the (split, mask_dir) pairs in the order os.walk and the two tests of
\* discover_datasets append them: train_mask first, then test_mask
walked ==
  (IF MaskDir \in dirs /\ ImgDir \in dirs THEN <<MaskDir>> ELSE <<>>)
  \o (IF TestMaskDir \in dirs /\ TestImgDir \in dirs
      THEN <<TestMaskDir>> ELSE <<>>)

\* variant: the entries are left in the order they were appended
discover_datasets_unsorted == walked

\* improved: the mask_dir of the entries, sorted by mask_dir
discover_datasets == sorted(walked)

\* parallel: find_mask_dirs of the one dataset directory (train_mask, test_mask)
find_mask_dirs ==
  (IF MaskDir \in dirs THEN <<MaskDir>> ELSE <<>>)
  \o (IF TestMaskDir \in dirs THEN <<TestMaskDir>> ELSE <<>>)

\* acdc: MASK_ROOT of the entry point
MASK_ROOT == MaskDir

\* the folders the running script goes through
Discovered ==
  CASE script = "improved" -> discover_datasets
    [] script = "parallel" -> find_mask_dirs
    [] OTHER               -> <<MASK_ROOT>>

\* ------------------------------------------------------------ retry policy

GetCaptionAttempts == 10
GetCaptionMaxWait == 10
AresponseAttempts == 20
AresponseMaxWait == 30
ResponseAttempts == 1000
ResponseWait == 10
ExtraRequests == 3

Min(a, b) == IF a < b THEN a ELSE b
Max(a, b) == IF a > b THEN a ELSE b

\* variant: exponential wait that ignores max=
wait_exponential_uncapped(lo, hi, n) == Max(lo, 2 ^ (n - 1))

\* tenacity.wait_exponential(min=lo, max=hi) after the failed attempt number n
wait_exponential(lo, hi, n) == Max(Max(0, lo), Min(2 ^ (n - 1), hi))

\* variant: the stop condition lets one more attempt through
StopOneLater ==
  CASE script = "improved" -> GetCaptionAttempts + 1
    [] script = "parallel" -> AresponseAttempts + 1
    [] OTHER               -> ResponseAttempts + 1

\* stop_after_attempt of the client the script calls
StopAfterAttempt ==
  CASE script = "improved" -> GetCaptionAttempts
    [] script = "parallel" -> AresponseAttempts
    [] OTHER               -> ResponseAttempts

\* the wait before the next attempt, after attempt number n failed
WaitAfter(n) ==
  CASE script = "improved" -> wait_exponential(1, GetCaptionMaxWait, n)
    [] script = "parallel" -> wait_exponential(1, AresponseMaxWait, n)
    [] OTHER               -> ResponseWait

\* retry=retry_if_exception_type((RateLimitError, APITimeoutError,
\* APIConnectionError, InternalServerError)); without retry= every exception
RetriesOn(kind) ==
  IF script \in {"improved", "parallel"} THEN kind = "retryable" ELSE TRUE

\* ------------------------------------------------------------------ bounds

MaxConcurrency == 2

\* the mask whose requests the stub "any" may fail with transient errors
FlakyTask == 1

\* the values of MAX_CAPTION_WORDS tried: below and above the fallback's length
WordLimits == {2, 6}

Scripts == {"improved", "parallel", "acdc"}

\* a stub that answers anything, only the empty string, or only a permanent error
Stubs == {"any", "empty", "fatal"}

InitialFiles ==
  {Absent, File(strip(TwoWords) \o <<"\n">>), File(SevenWords \o <<"\n">>)}

\* ------------------------------------------------------------------- tasks

\* wrote_in_with: the coroutine reached the write of its caption file inside
\* its "async with" block, that is before it gave its permit back
NewTask ==
  [pc |-> "new", reason |-> "", attempts |-> 0, attempt_number |-> 0,
   failures |-> 0, last_wait |-> 0, outcome |-> "", wrote_in_with |-> FALSE]

\* a finished coroutine; its locals are gone
Ended(pc, outcome) ==
  [pc |-> pc, reason |-> "", attempts |-> 0, attempt_number |-> 0,
   failures |-> 0, last_wait |-> 0, outcome |-> outcome,
   wrote_in_with |-> FALSE]

\* a fresh invocation of the retrying client: first attempt in flight
Invocation(reason, attempts) ==
  [pc |-> "calling", reason |-> reason, attempts |-> attempts,
   attempt_number |-> 1, failures |-> 0, last_wait |-> 0, outcome |-> "",
   wrote_in_with |-> FALSE]

InFlight == {t \in Tasks : task[t].pc = "calling"}

\* number of words of a text, counted as starts of non-whitespace runs
WordCount(s) ==
  Cardinality({i \in 1..Len(s) : s[i] \notin WS /\ (i = 1 \/ s[i - 1] \in WS)})

ValidCaptionFile(f) ==
  /\ f.exists
  /\ f.readable
  /\ WordCount(f.data) >= 1
  /\ WordCount(f.data) <= MAX_CAPTION_WORDS

AllValidIn(files, d) ==
  \A t \in Tasks : ValidCaptionFile(files[OutPathIn(d, t)])

AllValid(files) == AllValidIn(files, mask_dir)

NoProbe == [path |-> <<>>, needs |-> FALSE, reason |-> "none"]

\* no mask has been handed to the path and label helpers
NoDerived == [listing |-> <<>>, out |-> <<>>]

\* no shard builder runs
NoShard == [builder |-> "none", pc |-> "idle", todo |-> 0, count |-> 0,
            skipped |-> 0, failed |-> 0, sink |-> <<>>, samples |-> {}]

\* no total printed: a function from the names of totals to numbers
NoTotals == [name \in {} |-> 0]

\* Stats()
NewStats ==
  [images_found |-> 0, gifs_found |-> 0, videos_found |-> 0,
   images_converted |-> 0, gifs_converted |-> 0,
   images_deleted |-> 0, gifs_deleted |-> 0,
   skipped_existing |-> 0, failed |-> 0]

\* main's locals: no loop body has run
Locals(pc, todo) == [pc |-> pc, todo |-> todo, src |-> <<>>, ended |-> "none"]

\* conversion is not running
ConvertIdle ==
  /\ args = [dry_run |-> FALSE, skip_if_exists |-> FALSE]
  /\ ffmpeg = FALSE
  /\ disk = {}
  /\ stats = NewStats
  /\ conv = Locals("idle", <<>>)

\* add_simple_caption_biomedparse is not running
SimpleIdle ==
  /\ overwrite = FALSE
  /\ txt_exists = [t \in Tasks |-> FALSE]
  /\ future = [t \in Tasks |-> "none"]
  /\ total_seen = 0
  /\ total_written = 0
  /\ simple_pc = "idle"

Init ==
  /\ script \in Scripts
  /\ stub \in Stubs
  /\ CONCURRENCY \in 1..MaxConcurrency
  /\ MAX_CAPTION_WORDS \in WordLimits
  /\ FORCE_REGEN \in BOOLEAN
  /\ script # "improved" => (~FORCE_REGEN /\ MAX_CAPTION_WORDS = 6)
  /\ script = "acdc" => CONCURRENCY = 1
  /\ fs \in [CaptionPaths -> InitialFiles]
  /\ \A p \in TestCaptionPaths : fs[p] = Absent
  /\ credential \in BOOLEAN
  /\ dirs \in {{MaskDir, ImgDir}, {MaskDir, ImgDir, CaptionDir}}
  /\ (\E p \in CaptionPaths : fs[p].exists) => CaptionDir \in dirs
  /\ entries = <<>>
  /\ folder = 0
  /\ finished = <<>>
  /\ sem = CONCURRENCY
  /\ task = [t \in Tasks |-> NewTask]
  /\ doneq = <<>>
  /\ completed = 0
  /\ sched = "start"
  /\ run = 1
  /\ writes = 0
  /\ validAtStart = FALSE
  /\ probe = NoProbe
  /\ derived = NoDerived
  /\ shard = NoShard
  /\ summary = NoTotals
  /\ SimpleIdle
  /\ ConvertIdle

\* ------------------------------------------------------------ task endings

\* The sequential loop of add_caption_ACDC moves to the next mask by itself;
\* the two asyncio scripts hand the finished task to as_completed's queue.
EndTask(t, outcome, release, wrote_in_with) ==
  /\ task' = [task EXCEPT ![t] = [Ended("done", outcome) EXCEPT
                                    !.wrote_in_with = wrote_in_with]]
  /\ sem' = IF release THEN sem + 1 ELSE sem
  /\ IF script = "acdc"
     THEN /\ doneq' = doneq
          /\ completed' = IF outcome = "raised" THEN completed ELSE completed + 1
          /\ sched' = IF outcome = "raised" THEN "raised"
                      ELSE IF completed + 1 = Len(mask_paths) THEN "done"
                      ELSE sched
     ELSE /\ doneq' = Append(doneq, t)
          /\ UNCHANGED <<completed, sched>>

\* open(path, "w") and f.write(text): the three ways it can end
\*   "ok"          the file holds the text
\*   "open_fails"  makedirs or open raises; the file is as before
\*   "write_fails" open has truncated the file, the write or close raises
WriteOutcomes == {"ok", "open_fails", "write_fails"}

\* variant: the file is opened for appending
Written_appending(path, text, w) ==
  CASE w = "ok"          -> [fs EXCEPT ![path] = File(fs[path].data \o text)]
    [] w = "write_fails" -> [fs EXCEPT ![path] = File(fs[path].data)]
    [] OTHER             -> fs

Written(path, text, w) ==
  CASE w = "ok"          -> [fs EXCEPT ![path] = File(text)]
    [] w = "write_fails" -> [fs EXCEPT ![path] = File(<<>>)]
    [] OTHER             -> fs

Counted(w) ==
  IF w = "ok" THEN writes + 1 ELSE writes

\* os.makedirs(os.path.dirname(path), exist_ok=True) before the open: the
\* directories there may be afterwards.  add_caption_ACDC makes the caption
\* folder once, before its loop.
MadeDirs(path, w) ==
  IF script = "acdc" THEN {dirs}
  ELSE IF w = "open_fails" THEN {dirs, dirs \cup {dirname(path)}}
  ELSE {dirs \cup {dirname(path)}}

frame == <<script, stub, CONCURRENCY, MAX_CAPTION_WORDS, FORCE_REGEN, run,
           validAtStart, probe, derived, shard, credential, entries, folder, finished,
           summary, others>>

\* ---------------------------------------------------------------- start-up

\* variant: the driver starts its work without looking for the credential
MainStartUnchecked ==
  /\ sched = "start"
  /\ entries' = Discovered
  /\ folder' = 1
  /\ validAtStart' = AllValidIn(fs, Discovered[1])
  /\ dirs' = IF script = "acdc" THEN dirs \cup {CaptionDir} ELSE dirs
  /\ sched' = "running"
  /\ UNCHANGED <<script, stub, CONCURRENCY, MAX_CAPTION_WORDS, FORCE_REGEN, fs,
                 sem, task, doneq, completed, run, writes, probe, derived,
                 shard, credential,
                 finished, summary, others>>

\* The driver up to its first folder.
\*   improved: main returns at once when AZURE_API_KEY is not set (248-250),
\*             else it discovers the folders (257)
\*   parallel: azure_openai_llm() reads os.environ["AZURE_API_KEY"] and raises
\*             KeyError before run_all_datasets lists anything (199)
\*   acdc:     the same constructor (136), then makedirs of the caption folder
MainStart ==
  /\ sched = "start"
  /\ IF ~credential
     THEN /\ sched' = "no_key"
          /\ UNCHANGED <<entries, folder, validAtStart, dirs>>
     ELSE /\ entries' = Discovered
          /\ folder' = 1
          /\ validAtStart' = AllValidIn(fs, Discovered[1])
          /\ dirs' = IF script = "acdc" THEN dirs \cup {CaptionDir} ELSE dirs
          /\ sched' = "running"
  /\ UNCHANGED <<script, stub, CONCURRENCY, MAX_CAPTION_WORDS, FORCE_REGEN, fs,
                 sem, task, doneq, completed, run, writes, probe, derived,
                 shard, credential,
                 finished, summary, others>>

\* ------------------------------------------------------------ first steps

\* improved, process_mask up to its first await (lines 198-206)
ProcessMaskStart(t) ==
  /\ script = "improved" /\ sched = "running" /\ task[t].pc = "new"
  /\ LET r == caption_needs_regen(OutPath(t)) IN
       IF ~r.needs
       THEN EndTask(t, "skipped", FALSE, FALSE)
       ELSE /\ IF sem > 0
               THEN /\ task' = [task EXCEPT ![t] = Invocation(r.reason, 0)]
                    /\ sem' = sem - 1
               ELSE /\ task' = [task EXCEPT ![t] =
                                  [NewTask EXCEPT !.pc = "waiting",
                                                  !.reason = r.reason]]
                    /\ sem' = sem
            /\ UNCHANGED <<doneq, completed, sched>>
  /\ UNCHANGED <<fs, dirs, writes>>
  /\ UNCHANGED frame

\* parallel, worker up to its first await (lines 152-161)
WorkerStart(t) ==
  /\ script = "parallel" /\ sched = "running" /\ task[t].pc = "new"
  /\ IF fs[OutPath(t)].exists
     THEN EndTask(t, "skipped", FALSE, FALSE)
     ELSE /\ IF sem > 0
             THEN /\ task' = [task EXCEPT ![t] = Invocation("", 0)]
                  /\ sem' = sem - 1
             ELSE /\ task' = [task EXCEPT ![t] = [NewTask EXCEPT !.pc = "waiting"]]
                  /\ sem' = sem
          /\ UNCHANGED <<doneq, completed, sched>>
  /\ UNCHANGED <<fs, dirs, writes>>
  /\ UNCHANGED frame

\* acdc, one iteration of the for loop up to the remote call (lines 146-162)
AcdcStart(t) ==
  /\ script = "acdc" /\ sched = "running" /\ task[t].pc = "new"
  /\ \A u \in Tasks : u < t => task[u].pc = "done"
  /\ IF fs[OutPath(t)].exists
     THEN EndTask(t, "skipped", FALSE, FALSE)
     ELSE /\ task' = [task EXCEPT ![t] = Invocation("", 0)]
          /\ UNCHANGED <<sem, doneq, completed, sched>>
  /\ UNCHANGED <<fs, dirs, writes>>
  /\ UNCHANGED frame

\* variant: a waiter proceeds without a free permit
SemAcquireUnguarded(t) ==
  /\ sched = "running" /\ task[t].pc = "waiting"
  /\ task' = [task EXCEPT ![t] = Invocation(task[t].reason, 0)]
  /\ sem' = sem - 1
  /\ UNCHANGED <<fs, dirs, writes, doneq, completed, sched>>
  /\ UNCHANGED frame

\* asyncio.Semaphore: a waiter of "async with sem" gets a released permit
SemAcquire(t) ==
  /\ sched = "running" /\ task[t].pc = "waiting"
  /\ sem > 0
  /\ task' = [task EXCEPT ![t] = Invocation(task[t].reason, 0)]
  /\ sem' = sem - 1
  /\ UNCHANGED <<fs, dirs, writes, doneq, completed, sched>>
  /\ UNCHANGED frame


\* -------------------------------------------------------------- the client

\* what a request for mask t may fail with
ErrorKinds(t) ==
  IF stub = "any" THEN (IF t = FlakyTask THEN {"retryable", "fatal"} ELSE {"fatal"})
  ELSE IF stub = "fatal" THEN {"fatal"} ELSE {}

Answers == IF stub = "any" THEN Responses
           ELSE IF stub = "empty" THEN {EmptyText} ELSE {}

\* tenacity: the attempt failed and is retried after a wait
ClientRetry(t, kind) ==
  /\ sched = "running" /\ task[t].pc = "calling"
  /\ kind \in ErrorKinds(t)
  /\ RetriesOn(kind)
  /\ task[t].attempt_number < StopAfterAttempt
  /\ task' = [task EXCEPT ![t].attempt_number = @ + 1,
                          ![t].failures = @ + 1,
                          ![t].last_wait = WaitAfter(task[t].attempt_number)]
  /\ UNCHANGED <<fs, dirs, writes, sem, doneq, completed, sched>>
  /\ UNCHANGED frame

\* variant: the exception leaves the gated section without a release
ClientRaisesKeepingPermit(t, kind) ==
  /\ sched = "running" /\ task[t].pc = "calling"
  /\ kind \in ErrorKinds(t)
  /\ ~RetriesOn(kind) \/ task[t].attempt_number >= StopAfterAttempt
  /\ EndTask(t, IF RetriesOn(kind) THEN "retry_error" ELSE "failed",
             FALSE, FALSE)
  /\ UNCHANGED <<fs, dirs, writes>>
  /\ UNCHANGED frame

\* variant: the caption file was opened for writing before the call
ClientRaisesAfterOpen(t, kind) ==
  /\ sched = "running" /\ task[t].pc = "calling"
  /\ kind \in ErrorKinds(t)
  /\ ~RetriesOn(kind) \/ task[t].attempt_number >= StopAfterAttempt
  /\ EndTask(t, IF RetriesOn(kind) THEN "retry_error" ELSE "failed",
             script # "acdc", FALSE)
  /\ fs' = [fs EXCEPT ![OutPath(t)] = File(<<>>)]
  /\ UNCHANGED <<dirs, writes>>
  /\ UNCHANGED frame

\* The client raises to its caller: a failure tenacity does not retry, or
\* RetryError once stop_after_attempt is reached.
\*   improved: "except Exception" of process_mask prints, the semaphore is left
\*   parallel: agenerate_output returns None, worker returns after the release
\*   acdc:     generate_output returns None, the loop continues
ClientRaises(t, kind) ==
  /\ sched = "running" /\ task[t].pc = "calling"
  /\ kind \in ErrorKinds(t)
  /\ ~RetriesOn(kind) \/ task[t].attempt_number >= StopAfterAttempt
  /\ EndTask(t, IF RetriesOn(kind) THEN "retry_error" ELSE "failed",
             script # "acdc", FALSE)
  /\ UNCHANGED <<fs, dirs, writes>>
  /\ UNCHANGED frame

\* improved: get_caption returned text (lines 206-229); the write is the last
\* statement inside "async with semaphore", the permit goes back after it
GetCaptionReturns(t, text) ==
  /\ script = "improved" /\ sched = "running" /\ task[t].pc = "calling"
  /\ text \in Answers
  /\ LET caption == strip(strip(text)) IN
       IF caption_invalid(caption) /\ task[t].attempts < ExtraRequests
       THEN /\ task' = [task EXCEPT ![t] =
                          Invocation(task[t].reason, task[t].attempts + 1)]
            /\ UNCHANGED <<fs, dirs, writes, sem, doneq, completed, sched>>
       ELSE \E w \in WriteOutcomes :
              LET final == IF caption_invalid(caption)
                           THEN Fallbacks[t] ELSE caption
              IN /\ dirs' \in MadeDirs(OutPath(t), w)
                 /\ fs' = Written(OutPath(t), final \o <<"\n">>, w)
                 /\ writes' = Counted(w)
                 /\ EndTask(t, IF w # "ok" THEN "write_failed"
                               ELSE IF caption_invalid(caption) THEN "fallback"
                               ELSE "written", TRUE, TRUE)
  /\ UNCHANGED frame

\* parallel: aresponse returned text (lines 161-168): "async with sem" ends
\* with the call, the write comes after it; a failing write is not caught,
\* the exception ends the task
AresponseReturns(t, text) ==
  /\ script = "parallel" /\ sched = "running" /\ task[t].pc = "calling"
  /\ text \in Answers
  /\ \E w \in WriteOutcomes :
       /\ dirs' \in MadeDirs(OutPath(t), w)
       /\ fs' = Written(OutPath(t), strip(text) \o <<"\n">>, w)
       /\ writes' = Counted(w)
       /\ EndTask(t, IF w = "ok" THEN "written" ELSE "raised", TRUE, FALSE)
  /\ UNCHANGED frame

\* acdc: response returned text (lines 162-175); a failing write ends the run
ResponseReturns(t, text) ==
  /\ script = "acdc" /\ sched = "running" /\ task[t].pc = "calling"
  /\ text \in Answers
  /\ \E w \in WriteOutcomes :
       /\ dirs' \in MadeDirs(OutPath(t), w)
       /\ fs' = Written(OutPath(t), strip(text) \o <<"\n">>, w)
       /\ writes' = Counted(w)
       /\ EndTask(t, IF w = "ok" THEN "written" ELSE "raised", FALSE, FALSE)
  /\ UNCHANGED frame

\* ----------------------------------------------------------- the scheduler

\* "for fut in as_completed(tasks): await fut" takes the next finished task
AwaitNext ==
  /\ sched = "running" /\ doneq # <<>>
  /\ task[Head(doneq)].outcome # "raised"
  /\ doneq' = Tail(doneq)
  /\ completed' = completed + 1
  /\ sched' = IF completed + 1 = Len(mask_paths) THEN "done" ELSE sched
  /\ UNCHANGED <<fs, dirs, writes, sem, task>>
  /\ UNCHANGED frame

\* "await fut" re-raises the exception of the task; asyncio.run cancels the
\* tasks that are left (their semaphore permits are given back) and raises
AwaitRaises ==
  /\ sched = "running" /\ doneq # <<>>
  /\ task[Head(doneq)].outcome = "raised"
  /\ doneq' = Tail(doneq)
  /\ sched' = "raised"
  /\ task' = [t \in Tasks |->
               IF task[t].pc = "done" THEN task[t] ELSE Ended("cancelled", "")]
  /\ sem' = sem + Cardinality(InFlight)
  /\ UNCHANGED <<fs, dirs, writes, completed>>
  /\ UNCHANGED frame

\* the same script is started again on the files the first run left
Rerun ==
  /\ script = "improved"
  /\ sched = "done" /\ folder = Len(entries) /\ run = 1
  /\ run' = 2
  /\ task' = [t \in Tasks |-> NewTask]
  /\ sem' = CONCURRENCY
  /\ doneq' = <<>>
  /\ completed' = 0
  /\ sched' = "running"
  /\ writes' = 0
  /\ validAtStart' = AllValid(fs)
  /\ UNCHANGED <<script, stub, CONCURRENCY, MAX_CAPTION_WORDS, FORCE_REGEN,
                 fs, probe, derived, shard, credential, dirs, entries, folder, finished,
                 summary, others>>

Next ==
  \/ MainStart
  \/ \E t \in Tasks : ProcessMaskStart(t)
  \/ \E t \in Tasks : WorkerStart(t)
  \/ \E t \in Tasks : AcdcStart(t)
  \/ \E t \in Tasks : SemAcquire(t)
  \/ \E t \in Tasks, kind \in {"retryable", "fatal"} : ClientRetry(t, kind)
  \/ \E t \in Tasks, kind \in {"retryable", "fatal"} : ClientRaises(t, kind)
  \/ \E t \in Tasks, text \in Responses : GetCaptionReturns(t, text)
  \/ \E t \in Tasks, text \in Responses : AresponseReturns(t, text)
  \/ \E t \in Tasks, text \in Responses : ResponseReturns(t, text)
  \/ AwaitNext
  \/ AwaitRaises
  \/ Rerun

Spec == Init /\ [][Next]_vars


\* ------------------------------------------------ main over several folders

\* improved: "for ent in entries: await process_folder(...)" goes to the next
\* entry when process_folder has returned, with the same semaphore
NextFolder ==
  /\ script = "improved"
  /\ sched = "done" /\ folder < Len(entries)
  /\ finished' = Append(finished, [mask_dir |-> mask_dir, task |-> task])
  /\ folder' = folder + 1
  /\ task' = [t \in Tasks |-> NewTask]
  /\ doneq' = <<>>
  /\ completed' = 0
  /\ sched' = "running"
  /\ UNCHANGED <<script, stub, CONCURRENCY, MAX_CAPTION_WORDS, FORCE_REGEN, fs,
                 sem, run, writes, validAtStart, probe, derived, shard, credential, dirs,
                 entries, summary, others>>

\* improved: after the last folder main closes the client and prints the
\* elapsed time; it keeps and prints no count of items (lines 266-268)
MainEnd ==
  /\ script = "improved"
  /\ sched = "done" /\ folder = Len(entries)
  /\ sched' = "closed"
  /\ summary' = NoTotals
  /\ UNCHANGED <<script, stub, CONCURRENCY, MAX_CAPTION_WORDS, FORCE_REGEN, fs,
                 sem, task, doneq, completed, run, writes, validAtStart, probe,
          derived, shard,
                 credential, dirs, entries, folder, finished, others>>

\* a dataset with a train and a test split and no caption yet
InitMain ==
  /\ script = "improved"
  /\ stub = "any"
  /\ CONCURRENCY \in 1..MaxConcurrency
  /\ MAX_CAPTION_WORDS = 6
  /\ FORCE_REGEN = FALSE
  /\ fs = [p \in CaptionPaths |-> Absent]
  /\ credential \in BOOLEAN
  /\ dirs = {MaskDir, ImgDir, TestMaskDir, TestImgDir}
  /\ entries = <<>>
  /\ folder = 0
  /\ finished = <<>>
  /\ sem = CONCURRENCY
  /\ task = [t \in Tasks |-> NewTask]
  /\ doneq = <<>>
  /\ completed = 0
  /\ sched = "start"
  /\ run = 1
  /\ writes = 0
  /\ validAtStart = FALSE
  /\ probe = NoProbe
  /\ derived = NoDerived
  /\ shard = NoShard
  /\ summary = NoTotals
  /\ SimpleIdle
  /\ ConvertIdle

NextMain ==
  \/ MainStart
  \/ \E t \in Tasks : ProcessMaskStart(t)
  \/ \E t \in Tasks : SemAcquire(t)
  \/ \E t \in Tasks, kind \in {"retryable", "fatal"} : ClientRetry(t, kind)
  \/ \E t \in Tasks, kind \in {"retryable", "fatal"} : ClientRaises(t, kind)
  \/ \E t \in Tasks, text \in Responses : GetCaptionReturns(t, text)
  \/ AwaitNext
  \/ NextFolder
  \/ MainEnd

SpecMain == InitMain /\ [][NextMain]_vars

\* ---------------------------------------------- add_simple_caption_biomedparse

\* the captioning scripts do not run
PipelineIdle ==
  /\ script = "simple"
  /\ stub = "fatal"
  /\ CONCURRENCY = 1
  /\ MAX_CAPTION_WORDS = 6
  /\ FORCE_REGEN = FALSE
  /\ fs = [p \in CaptionPaths |-> Absent]
  /\ credential = FALSE
  /\ dirs = {MaskDir, ImgDir}
  /\ entries = <<>>
  /\ folder = 0
  /\ finished = <<>>
  /\ sem = CONCURRENCY
  /\ task = [t \in Tasks |-> NewTask]
  /\ doneq = <<>>
  /\ completed = 0
  /\ sched = "idle"
  /\ run = 1
  /\ writes = 0
  /\ validAtStart = FALSE
  /\ probe = NoProbe

converter == <<args, ffmpeg, disk, stats, conv>>

pipeline == <<script, stub, CONCURRENCY, MAX_CAPTION_WORDS, FORCE_REGEN, fs, sem,
              task, doneq, completed, sched, run, writes, validAtStart, probe,
          derived, shard,
              credential, dirs, entries, folder, finished>>

\* main before its loop: one mask folder, its masks with or without a caption
InitSimple ==
  /\ PipelineIdle
  /\ derived = NoDerived
  /\ shard = NoShard
  /\ summary = NoTotals
  /\ overwrite \in BOOLEAN
  /\ txt_exists \in [Tasks -> BOOLEAN]
  /\ future = [t \in Tasks |-> "none"]
  /\ total_seen = 0
  /\ total_written = 0
  /\ simple_pc = "start"
  /\ ConvertIdle

\* main enters the folder: the masks are counted as seen and one call of
\* process_one_mask per mask is submitted to the pool (lines 158-170)
SimpleFolder ==
  /\ simple_pc = "start"
  /\ total_seen' = total_seen + Len(mask_paths)
  /\ future' = [t \in Tasks |-> "pending"]
  /\ simple_pc' = "folder"
  /\ UNCHANGED <<pipeline, summary, overwrite, txt_exists, total_written>>
  /\ UNCHANGED converter

\* process_one_mask in a pool thread: False for an existing caption unless
\* --overwrite is given, else the caption is written and True returned; an
\* exception of makedirs, open or write is kept in the future
ProcessOneMask(t) ==
  /\ simple_pc = "folder" /\ future[t] = "pending"
  /\ IF ~overwrite /\ txt_exists[t]
     THEN /\ future' = [future EXCEPT ![t] = "False"]
          /\ UNCHANGED txt_exists
     ELSE \E w \in WriteOutcomes :
            /\ future' = [future EXCEPT ![t] = IF w = "ok" THEN "True"
                                                ELSE "raised"]
            /\ txt_exists' = [txt_exists EXCEPT ![t] = @ \/ w # "open_fails"]
  /\ UNCHANGED <<pipeline, summary, overwrite, total_seen, total_written,
                 simple_pc>>
  /\ UNCHANGED converter

\* the loop over as_completed(futures): fut.result() is counted when it is
\* True; an exception is printed and nothing is counted (lines 171-177)
FutureResult(t) ==
  /\ simple_pc = "folder" /\ future[t] \in {"True", "False", "raised"}
  /\ total_written' = total_written + (IF future[t] = "True" THEN 1 ELSE 0)
  /\ future' = [future EXCEPT ![t] = "collected"]
  /\ UNCHANGED <<pipeline, summary, overwrite, txt_exists, total_seen,
                 simple_pc>>
  /\ UNCHANGED converter

\* print(f"Done. Seen: {total_seen} masks | Wrote: {total_written} captions")
SimpleSummary ==
  /\ simple_pc = "folder" /\ \A t \in Tasks : future[t] = "collected"
  /\ simple_pc' = "end"
  /\ summary' = [name \in {"seen", "written"} |->
                  IF name = "seen" THEN total_seen ELSE total_written]
  /\ UNCHANGED <<pipeline, overwrite, txt_exists, future, total_seen,
                 total_written>>
  /\ UNCHANGED converter

NextSimple ==
  \/ SimpleFolder
  \/ \E t \in Tasks : ProcessOneMask(t)
  \/ \E t \in Tasks : FutureResult(t)
  \/ SimpleSummary

SpecSimple == InitSimple /\ [][NextSimple]_vars


\* ------------------------------------------------------------- conversion

\* The tree under root, in the order root.rglob("*") yields it: an image and
\* a gif to convert, and the files their conversions produce.
Webp == <<"media", "/", "a", ".", "webp">>

Png == <<"media", "/", "a", ".", "png">>

Gif == <<"media", "/", "b", ".", "gif">>

Mp4 == <<"media", "/", "b", ".", "mp4">>

Tree == <<Webp, Png, Gif, Mp4>>

\* Path.suffix: the last dot of the name and what follows it
suffix(p) ==
  LET i == rfind(p, ".") IN
  IF i > rfind(p, "/") + 1 THEN SubSeq(p, i, Len(p)) ELSE <<>>

\* safe_target_path: src.with_suffix(new_ext)
safe_target_path(src, new_ext) == splitext_root(src) \o new_ext

VIDEO_EXTS ==
  {<<".", e>> : e \in {"mp4", "mov", "mkv", "avi", "webm", "m4v", "mpg", "mpeg"}}

\* BASE_IMAGE_EXTS; none of the --include-* options is given
image_exts == {<<".", "webp">>}

Found(exts) == SelectSeq(Tree, LAMBDA p : p \in disk /\ suffix(p) \in exts)

\* how convert_image_to_png or convert_gif_to_mp4 may end
\*   "ok"             the target is written
\*   "raises"         an exception before the target is created
\*   "raises_partial" an exception after the target was created
\*   "silent"         a normal return that wrote no target
ConvertOutcomes == {"ok", "raises", "raises_partial", "silent"}

\* src.unlink() succeeds or raises
UnlinkOutcomes == {"ok", "raises"}

InitConvert ==
  /\ PipelineIdle
  /\ derived = NoDerived
  /\ shard = NoShard
  /\ summary = NoTotals
  /\ SimpleIdle
  /\ args \in [dry_run : BOOLEAN, skip_if_exists : BOOLEAN]
  /\ ffmpeg \in BOOLEAN
  /\ disk \in SUBSET {Webp, Png, Gif, Mp4}
  /\ stats = NewStats
  /\ conv = Locals("scan", <<>>)

simple == <<summary, overwrite, txt_exists, future, total_seen, total_written,
            simple_pc>>

\* main collects the files to convert and counts them (lines 135-150)
Collect ==
  /\ conv.pc = "scan"
  /\ stats' = [stats EXCEPT
                 !.images_found = Len(Found(image_exts)),
                 !.gifs_found = Len(Found({<<".", "gif">>})),
                 !.videos_found = Len(Found(VIDEO_EXTS))]
  /\ conv' = Locals("convert", Found(image_exts) \o Found({<<".", "gif">>}))
  /\ UNCHANGED <<pipeline, simple, args, ffmpeg, disk>>

\* variant: the conversion runs in a dry run too
should_convert_always == TRUE

\* "if not args.dry_run:"
should_convert == ~args.dry_run

\* variant: the original is unlinked without looking for the target
dst_exists_unchecked(dst, d) == TRUE

\* "if dst.exists():" after the conversion, on the files d there are then
dst_exists(dst, d) == dst \in d

Count(field) == [stats EXCEPT ![field] = @ + 1]

\* One body of the two loops of main (lines 161-177 and 181-196): src becomes
\* src with new_ext; able is FALSE when the converter raises at once (no
\* ffmpeg); o and u are how the conversion and the unlink end.
Body(src, new_ext, converted, deleted, able, o, u) ==
  LET dst == safe_target_path(src, new_ext)
      d   == IF o = "ok" THEN disk \cup {dst} ELSE disk
      End(how, files, counters) ==
        /\ conv' = [pc |-> "convert", todo |-> Tail(conv.todo),
                    src |-> src, ended |-> how]
        /\ disk' = files
        /\ stats' = counters
  IN IF dst \in disk /\ args.skip_if_exists
     THEN End("skipped", disk, Count("skipped_existing"))
     ELSE IF ~should_convert
     THEN End("dry", disk, stats)
     ELSE IF ~able \/ o = "raises"
     THEN End("conversion_raised", disk, Count("failed"))
     ELSE IF o = "raises_partial"
     THEN End("conversion_raised", disk \cup {dst}, Count("failed"))
     ELSE IF ~dst_exists(dst, d)
     THEN End("kept", d, Count(converted))
     ELSE IF u = "raises"
     THEN End("unlink_raised", d,
              [Count(converted) EXCEPT !.failed = @ + 1])
     ELSE End("deleted", d \ {src},
              [Count(converted) EXCEPT ![deleted] = @ + 1])

\* "for src in images:" one iteration
ConvertImage(o, u) ==
  /\ conv.pc = "convert" /\ conv.todo # <<>>
  /\ suffix(Head(conv.todo)) \in image_exts
  /\ Body(Head(conv.todo), <<".", "png">>, "images_converted",
          "images_deleted", TRUE, o, u)
  /\ UNCHANGED <<pipeline, simple, args, ffmpeg>>

\* "for src in gifs:" one iteration; convert_gif_to_mp4 raises RuntimeError
\* when ffmpeg is not installed
ConvertGif(o, u) ==
  /\ conv.pc = "convert" /\ conv.todo # <<>>
  /\ suffix(Head(conv.todo)) = <<".", "gif">>
  /\ Body(Head(conv.todo), <<".", "mp4">>, "gifs_converted", "gifs_deleted",
          ffmpeg, o, u)
  /\ UNCHANGED <<pipeline, simple, args, ffmpeg>>

\* the summary is printed from stats (lines 198-207)
ConvertSummary ==
  /\ conv.pc = "convert" /\ conv.todo = <<>>
  /\ conv' = [conv EXCEPT !.pc = "end"]
  /\ UNCHANGED <<pipeline, simple, args, ffmpeg, disk, stats>>

NextConvert ==
  \/ Collect
  \/ \E o \in ConvertOutcomes, u \in UnlinkOutcomes : ConvertImage(o, u)
  \/ \E o \in ConvertOutcomes, u \in UnlinkOutcomes : ConvertGif(o, u)
  \/ ConvertSummary

SpecConvert == InitConvert /\ [][NextConvert]_vars


\* ------------------------------------------- caption_needs_regen on its own

\* the files the filter is tried on: absent, unreadable, empty, blank, and
\* captions of one, two, three and seven words
RegenFiles ==
  {Absent, Unreadable, File(<<>>), File(<<" ", "\n">>),
   File(<<"Segment", "\n">>), File(strip(TwoWords) \o <<"\n">>),
   File(<<" ", "Segment", " ", "the", "\n", "heart">>),
   File(SevenWords \o <<"\n">>)}

InitRegen ==
  /\ script = "improved"
  /\ stub = "any"
  /\ CONCURRENCY = 1
  /\ MAX_CAPTION_WORDS \in WordLimits
  /\ FORCE_REGEN \in BOOLEAN
  /\ fs \in [CaptionPaths -> RegenFiles]
  /\ \A p \in TestCaptionPaths : fs[p] = Absent
  /\ credential = TRUE
  /\ dirs = {MaskDir, ImgDir, CaptionDir}
  /\ entries = <<MaskDir>>
  /\ folder = 1
  /\ finished = <<>>
  /\ sem = CONCURRENCY
  /\ task = [t \in Tasks |-> NewTask]
  /\ doneq = <<>>
  /\ completed = 0
  /\ sched = "running"
  /\ run = 1
  /\ writes = 0
  /\ validAtStart = AllValid(fs)
  /\ probe = NoProbe
  /\ derived = NoDerived
  /\ shard = NoShard
  /\ summary = NoTotals
  /\ SimpleIdle
  /\ ConvertIdle

\* one call caption_needs_regen(caption_path); its result is kept in probe
Probe(caption_path) ==
  /\ probe' = [path   |-> caption_path,
               needs  |-> caption_needs_regen(caption_path).needs,
               reason |-> caption_needs_regen(caption_path).reason]
  /\ UNCHANGED <<script, stub, CONCURRENCY, MAX_CAPTION_WORDS, FORCE_REGEN, fs,
                 sem, task, doneq, completed, sched, run, writes, validAtStart,
                 derived, shard, credential, dirs, entries, folder, finished, summary,
                 others>>

NextRegen == \E caption_path \in CaptionPaths : Probe(caption_path)

SpecRegen == InitRegen /\ [][NextRegen]_vars


\* ------------------------------------------------------------------ claims

Async == script \in {"improved", "parallel"}

\* attempt ceiling and backoff cap of the two clients with a retry filter
ClientCeiling ==
  IF script = "improved" THEN GetCaptionAttempts ELSE AresponseAttempts

ClientCap == IF script = "improved" THEN GetCaptionMaxWait ELSE AresponseMaxWait

\* steps of the client of task t, read off the task's state
Retried(t) ==
  /\ task[t].pc = "calling" /\ task'[t].pc = "calling"
  /\ task'[t].failures = task[t].failures + 1

Returned(t) ==
  /\ task[t].pc = "calling"
  /\ \/ task'[t].attempts = task[t].attempts + 1
     \/ task'[t].outcome \in {"written", "fallback", "write_failed", "raised"}

GaveUp(t) == task[t].pc = "calling" /\ task'[t].outcome = "retry_error"

Failed(t) == task[t].pc = "calling" /\ task'[t].outcome = "failed"

\* C1: the number of tasks inside a remote captioning call never exceeds the
\* configured concurrency limit N.
C1_InFlightBounded == Cardinality(InFlight) <= CONCURRENCY

\* a task is inside the call and another one is held back by the semaphore
C1_Witness ==
  /\ Async
  /\ Cardinality(InFlight) = CONCURRENCY
  /\ \E t \in Tasks : task[t].pc = "waiting"

\* C2: with a client that always returns the empty string, every eligible item
\* (improved: process_mask, parallel: worker) whose write did not fail ends
\* with a caption file that exists and is non-empty after stripping.
C2_FallbackGuarantee ==
  (Async /\ stub = "empty") =>
    \A t \in Tasks :
      (task[t].pc = "done" /\ task[t].outcome \in {"written", "fallback"}) =>
        /\ fs[OutPath(t)].exists
        /\ fs[OutPath(t)].readable
        /\ strip(fs[OutPath(t)].data) # <<>>

C4_FilterVerdict ==
  (probe.reason # "none" /\ ~FORCE_REGEN) =>
    LET f == fs[probe.path]
        n == WordCount(f.data)
    IN /\ ~probe.needs <=>
            (f.exists /\ f.readable /\ n >= 1 /\ n <= MAX_CAPTION_WORDS)
       /\ (f.exists /\ f.readable /\ n > MAX_CAPTION_WORDS) =>
            (probe.needs /\ probe.reason = "too_long")
       /\ (f.exists /\ f.readable /\ n = 0) =>
            (probe.needs /\ probe.reason = "empty")
       /\ ~f.exists => (probe.needs /\ probe.reason = "missing")

\* a caption one word over the limit was reported too_long
C4_Witness ==
  /\ ~FORCE_REGEN
  /\ probe.reason = "too_long"
  /\ WordCount(fs[probe.path].data) = MAX_CAPTION_WORDS + 1

\* C5: with the force-regeneration flag set the filter answers "needs
\* processing" for every item whatever its file holds, and no item is skipped:
\* every item that has finished went through the remote client.
C5_ForcedRegeneration ==
  (script = "improved" /\ FORCE_REGEN /\ folder >= 1) =>
    \A t \in Tasks :
      /\ caption_needs_regen(OutPath(t)).needs
      /\ task[t].pc = "done" => task[t].outcome # "skipped"

\* an item whose caption file is valid is inside the remote call
C5_Witness ==
  /\ script = "improved" /\ FORCE_REGEN
  /\ \E t \in Tasks :
       task[t].pc = "calling" /\ ValidCaptionFile(fs[OutPath(t)])

\* C6: a call of get_caption or aresponse that fails K times with a retryable
\* error and then succeeds has made exactly K+1 attempts, K below the ceiling;
\* each backoff wait is at least the previous one and at most the cap.
C6_RetryThenSuccess ==
  [][Async =>
       \A t \in Tasks :
         /\ Retried(t) =>
              /\ task'[t].attempt_number = task[t].attempt_number + 1
              /\ task[t].last_wait <= task'[t].last_wait
              /\ task'[t].last_wait <= ClientCap
         /\ Returned(t) =>
              /\ task[t].attempt_number = task[t].failures + 1
              /\ task[t].failures < ClientCeiling]_vars

\* aresponse is in its last allowed attempt after waiting the capped time
C6_Witness ==
  /\ script = "parallel"
  /\ \E t \in Tasks :
       /\ task[t].pc = "calling"
       /\ task[t].failures = AresponseAttempts - 1
       /\ task[t].last_wait = AresponseMaxWait

\* C7: under persistent retryable failures a call makes at most 10 (get_caption)
\* or 20 (aresponse) attempts and then fails that item only: the files, the
\* other tasks and the scheduler loop are untouched, and the loop is only ever
\* aborted by a task that raised.
C7_GiveUpIsPerItem ==
  /\ [](Async => \A t \in Tasks : task[t].attempt_number <= ClientCeiling)
  /\ [](Async /\ sched = "raised" =>
          \E t \in Tasks : task[t].outcome = "raised")
  /\ [][Async =>
          \A t \in Tasks :
            GaveUp(t) =>
              /\ task[t].attempt_number = ClientCeiling
              /\ sched' = "running"
              /\ fs' = fs
              /\ \A u \in Tasks \ {t} : task'[u] = task[u]]_vars

\* the folder is finished: one item gave up after its retries, the other one
\* has its caption
C7_Witness ==
  /\ Async /\ sched = "done"
  /\ \E t, u \in Tasks :
       task[t].outcome = "retry_error" /\ task[u].outcome = "written"

\* C8: in every client a non-retryable failure fails the item after exactly
\* one network attempt, with no retry and no backoff wait.
C8_FatalIsNotRetried ==
  stub = "fatal" =>
    \A t \in Tasks : task[t].attempt_number <= 1 /\ task[t].last_wait = 0

\* C9: a failure of one item never leaves the scheduler loop of process_folder
\* or generate_questions_for_masks_parallel.
C9_NoFailureLeavesTheLoop == Async => sched # "raised"

\* C10: when the client raises a non-retryable error for an item no caption
\* file is created or changed, and with a client that always fails a run
\* changes no caption file at all.
C10_FailureWritesNothing ==
  [][Async =>
       /\ \A t \in Tasks : Failed(t) => fs' = fs
       /\ stub = "fatal" => fs' = fs]_vars

\* the run is over with a client that always fails: an item without a file and
\* an item whose over-long caption is still in place
C10_Witness ==
  /\ script = "improved" /\ stub = "fatal" /\ sched = "done"
  /\ \E t, u \in Tasks :
       /\ task[t].outcome = "failed" /\ ~fs[OutPath(t)].exists
       /\ task[u].outcome = "failed"
       /\ fs[OutPath(u)] = File(SevenWords \o <<"\n">>)

\* C11: when AZURE_API_KEY is not in the environment the run ends at once: no
\* folder is discovered, no task starts, no remote call is made, and no file or
\* directory is created or changed.
C11_NoCredentialNoWork ==
  /\ [](~credential =>
          /\ sched \in {"start", "no_key"}
          /\ entries = <<>> /\ folder = 0
          /\ \A t \in Tasks : task[t] = NewTask
          /\ sem = CONCURRENCY /\ doneq = <<>> /\ writes = 0)
  /\ [][~credential => (fs' = fs /\ dirs' = dirs)]_vars
  /\ [][sched # "no_key"]_vars

\* the script has ended for want of the credential, next to masks without a
\* caption file
C11_Witness ==
  /\ ~credential /\ sched = "no_key"
  /\ \A p \in CaptionPaths : ~fs[p].exists

\* the mask folders the driver has entered so far, in that order
Entered ==
  [i \in 1..Len(finished) |-> finished[i].mask_dir]
  \o (IF folder >= 1 THEN <<mask_dir>> ELSE <<>>)

\* C12: the folders are entered in ascending order of their mask directory
\* path (test_mask before train_mask); when a folder is entered every task of
\* the folders before it has completed, and a folder not yet entered has no
\* caption file and no caption directory.
C12_FoldersOneAtATime ==
  /\ Entered \in {<<>>, <<TestMaskDir>>, <<TestMaskDir, MaskDir>>}
  /\ \A i \in 1..Len(finished) :
       \A t \in Tasks : finished[i].task[t].pc = "done"
  /\ \A d \in MaskDirs :
       (\A i \in 1..Len(Entered) : Entered[i] # d) =>
         \A t \in Tasks :
           /\ ~fs[OutPathIn(d, t)].exists
           /\ dirname(OutPathIn(d, t)) \notin dirs

\* in the second folder both tasks have finished, the second mask first, after
\* the first folder got a caption
C12_Witness ==
  /\ Len(finished) = 1 /\ folder = 2
  /\ doneq = <<2, 1>>
  /\ \E t \in Tasks : finished[1].task[t].outcome = "written"

\* the step in which task t writes its caption file successfully
Wrote(t) ==
  task[t].pc = "calling" /\ task'[t].outcome \in {"written", "fallback"}

\* C13: when process_mask or worker writes a caption, the parent directory of
\* the file exists afterwards and the whole content of the file is the caption
\* without leading or trailing whitespace followed by one newline, whatever
\* the file held before; no other file changes.
C13_WholeStrippedCaption ==
  [][Async =>
       \A t \in Tasks :
         Wrote(t) =>
           LET p == OutPath(t)
               d == fs'[p].data
               c == SubSeq(d, 1, Len(d) - 1)
           IN /\ dirname(p) \in dirs'
              /\ fs'[p].exists /\ fs'[p].readable
              /\ Len(d) >= 1 /\ d[Len(d)] = "\n"
              /\ c = <<>> \/ (c[1] \notin WS /\ c[Len(c)] \notin WS)
              /\ c \in {<<>>, <<"Segment", " ", "it">>, SevenWords, Fallbacks[t]}
              /\ \A q \in CaptionPaths \ {p} : fs'[q] = fs[q]]_vars

\* forced regeneration over valid files: the answer " Segment it\n" has
\* replaced the old caption of one mask as "Segment it\n", the fallback
\* caption the old caption of the other
C13_Witness ==
  /\ script = "improved" /\ FORCE_REGEN /\ validAtStart /\ run = 1
  /\ CaptionDir \in dirs
  /\ \E t, u \in Tasks :
       /\ task[t].outcome = "written"
       /\ fs[OutPath(t)] = File(<<"Segment", " ", "it", "\n">>)
       /\ task[u].outcome = "fallback"
       /\ fs[OutPath(u)] = File(Fallbacks[u] \o <<"\n">>)

\* C14: every caption file process_mask has written holds a valid caption:
\* not empty and at most MAX_CAPTION_WORDS words, whether the text is the
\* client's or the fallback "Segment <target> in <site> <modality>".
C14_WrittenCaptionsAreValid ==
  script = "improved" =>
    \A t \in Tasks :
      task[t].outcome \in {"written", "fallback"} =>
        ValidCaptionFile(fs[OutPath(t)])

\* the driver has printed its last line
Reported == sched = "closed" \/ simple_pc = "end"

\* C15: the totals the driver prints at the end of a run are those of the items
\* seen, skipped, written and failed, and seen = skipped + written + failed.
C15_TotalsAddUp ==
  Reported =>
    /\ {"seen", "skipped", "written", "failed"} \subseteq DOMAIN summary
    /\ summary["seen"] =
         summary["skipped"] + summary["written"] + summary["failed"]

\* C16: at every point of a run a caption file of process_mask is absent, or
\* holds complete content: text that ends with its newline, never the empty or
\* truncated file of a write that did not finish.
C16_WritesAreAllOrNothing ==
  script = "improved" =>
    \A p \in CaptionPaths :
      fs[p].exists =>
        /\ fs[p].data # <<>>
        /\ fs[p].data[Len(fs[p].data)] = "\n"

\* the file a conversion of src produces
TargetOf(src) == IF src = Webp THEN Png ELSE Mp4

\* the step is one body of a loop of the converter
BodyStep ==
  conv.pc = "convert" /\ conv.todo # <<>> /\ conv'.todo = Tail(conv.todo)

ConvertedCount(st) == st.images_converted + st.gifs_converted

DeletedCount(st) == st.images_deleted + st.gifs_deleted

\* C17: the converter removes an original only in a loop body whose conversion
\* returned normally and whose target exists afterwards, and removes no other
\* file; when the conversion raises the original stays, failed grows by one,
\* nothing is counted as converted or deleted, and the loop goes on with the
\* next file.
C17_DeleteOnlyAfterSuccess ==
  [][/\ \A src \in {Webp, Gif} :
          (src \in disk /\ src \notin disk') =>
            /\ BodyStep /\ conv'.src = src /\ conv'.ended = "deleted"
            /\ TargetOf(src) \in disk'
            /\ ConvertedCount(stats') = ConvertedCount(stats) + 1
            /\ DeletedCount(stats') = DeletedCount(stats) + 1
            /\ stats'.failed = stats.failed
     /\ disk \ {Webp, Gif} \subseteq disk'
     /\ (BodyStep /\ conv'.ended = "conversion_raised") =>
          /\ conv'.src \in disk'
          /\ stats'.failed = stats.failed + 1
          /\ ConvertedCount(stats') = ConvertedCount(stats)
          /\ DeletedCount(stats') = DeletedCount(stats)
          /\ conv'.pc = "convert"]_vars

\* the image could not be converted and is still there; the loop went on and
\* the gif, converted after it, has been replaced by its mp4
C17_Witness ==
  /\ Webp \in disk /\ Png \notin disk /\ stats.failed = 1
  /\ conv.src = Gif /\ conv.ended = "deleted"
  /\ Gif \notin disk /\ Mp4 \in disk
  /\ stats.gifs_converted = 1 /\ stats.gifs_deleted = 1

\* C18: in a dry run no step of the converter changes the set of files, and
\* at the summary the converted and deleted counters are all 0.
C18_DryRunChangesNothing ==
  /\ [][args.dry_run => disk' = disk]_vars
  /\ []((args.dry_run /\ conv.pc = "end") =>
          /\ stats.images_converted = 0 /\ stats.gifs_converted = 0
          /\ stats.images_deleted = 0 /\ stats.gifs_deleted = 0)

\* the summary of a dry run over an image and a gif, both found and both
\* still there without their targets
C18_Witness ==
  /\ args.dry_run /\ conv.pc = "end"
  /\ disk = {Webp, Gif}
  /\ stats.images_found = 1 /\ stats.gifs_found = 1
  /\ conv.ended = "dry"

\* C19: a task holds a permit only while it is inside a remote call: the
\* permits out are those of the tasks inside a call (none is held by a task at
\* its resumability check or by a finished task), and a task that wrote its
\* caption file had given its permit back before the write.
C19_PermitOnlyDuringCall ==
  (Async /\ sched = "running") =>
    /\ sem + Cardinality(InFlight) = CONCURRENCY
    /\ \A t \in Tasks :
         task[t].outcome \in {"written", "fallback"} => ~task[t].wrote_in_with

\* the step in which process_mask asks get_caption again for task t
ReRequested(t) ==
  task[t].pc = "calling" /\ task'[t].attempts = task[t].attempts + 1

\* the words of the caption in file f, counted without the final newline
FileWords(f) == WordCount(SubSeq(f.data, 1, Len(f.data) - 1))

\* C20: process_mask asks get_caption again at most 3 times, 4 invocations per
\* item; it writes the fallback caption only when the 4th invocation has
\* returned, and a caption it writes as the client's is valid (not empty, at
\* most MAX_CAPTION_WORDS words) and ends the item: no request follows it.
C20_AtMostThreeReRequests ==
  /\ [](script = "improved" => \A t \in Tasks : task[t].attempts <= 3)
  /\ [][script = "improved" =>
          \A t \in Tasks :
            /\ ReRequested(t) => task[t].attempts < 3
            /\ (task[t].pc = "calling" /\ task'[t].outcome = "fallback") =>
                 /\ task[t].attempts = 3
                 /\ fs'[OutPath(t)] = File(Fallbacks[t] \o <<"\n">>)
            /\ (task[t].pc = "calling" /\ task'[t].outcome = "written") =>
                 /\ FileWords(fs'[OutPath(t)]) >= 1
                 /\ FileWords(fs'[OutPath(t)]) <= MAX_CAPTION_WORDS
                 /\ task'[t].pc = "done"
            /\ (task[t].pc = "done" /\ run' = run /\ folder' = folder) =>
                 task'[t] = task[t]]_vars

\* one item got the fallback after its 4th invocation, the other one is
\* inside its 4th invocation
C20_Witness ==
  /\ script = "improved" /\ stub = "any"
  /\ \E t, u \in Tasks :
       /\ task[t].outcome = "fallback"
       /\ task[u].pc = "calling" /\ task[u].attempts = 3

\* the caption file of task t is valid and regeneration is not forced
ValidOutput(t) == ~FORCE_REGEN /\ ValidCaptionFile(fs[OutPath(t)])

\* C21: an item whose caption file is valid, with forced regeneration off, is
\* skipped by process_mask and by worker: its first step ends it as skipped
\* without taking a permit or entering the remote call, its caption file
\* never changes, and the files written in a run are exactly those of the
\* items that ended as written.
C21_ValidOutputIsSkipped ==
  /\ []((Async /\ folder >= 1) =>
          /\ writes = Cardinality({t \in Tasks :
                         task[t].outcome \in {"written", "fallback"}})
          /\ \A t \in Tasks :
               ValidOutput(t) => task[t].pc \in {"new", "done", "cancelled"})
  /\ [][(Async /\ folder >= 1 /\ run' = run) =>
          \A t \in Tasks :
            /\ (ValidOutput(t) /\ task[t].pc = "new"
                  /\ task'[t].pc \notin {"new", "cancelled"}) =>
                 /\ task'[t].pc = "done" /\ task'[t].outcome = "skipped"
                 /\ sem' = sem
            /\ (ValidOutput(t) /\ task[t].pc = "new") =>
                 fs'[OutPath(t)] = fs[OutPath(t)]
            /\ task[t].outcome = "skipped" =>
                 fs'[OutPath(t)] = fs[OutPath(t)]]_vars

\* the folder is done: the mask whose two-word caption was there is skipped
\* and its file is as it was, the other mask had none and got one
C21_Witness ==
  /\ Async /\ sched = "done" /\ run = 1 /\ writes = 1
  /\ MAX_CAPTION_WORDS = 2 \/ script = "parallel"
  /\ \E t, u \in Tasks :
       /\ task[t].outcome = "skipped"
       /\ fs[OutPath(t)] = File(<<"Segment", " ", "it", "\n">>)
       /\ task[u].outcome = "written"

\* ------------------------------------ the path and label helpers on their own

\* add_caption_biomedparse: the last "_" token of the stem, "+" read as a space
extract_organ_phrase_from_filename(mask_filename) ==
  LET stem == splitext_root(basename(mask_filename))
      k    == rfind(stem, "_")
      organ_part == IF k = 0 THEN stem ELSE SubSeq(stem, k + 1, Len(stem))
  IN replace(organ_part, <<"+">>, <<" ">>)

\* build_biomedparse_webdataset: the caption beside a mask; the loop stops at
\* the first path segment that ends in "_mask"
mask_path_to_caption_txt(mask_path) ==
  LET txt   == splitext_root(mask_path) \o <<".", "txt">>
      parts == split_on(txt, "/")
      endswith_mask(p) ==
        Len(p) >= 2 /\ p[Len(p) - 1] = "_" /\ p[Len(p)] = "mask"
      RECURSIVE loop(_, _)
      loop(ps, i) ==
        IF i > Len(ps) THEN ps
        ELSE IF endswith_mask(ps[i])
             THEN [ps EXCEPT ![i] = replace(ps[i], <<"_", "mask">>,
                                            <<"_", "caption">>)]
             ELSE loop(ps, i + 1)
      RECURSIVE join(_)
      join(ps) ==
        IF Len(ps) = 1 THEN ps[1] ELSE ps[1] \o <<"/">> \o join(Tail(ps))
  IN join(loop(parts, 1))

\* a dataset folder whose own name ends in "_mask"
NestedMaskDir == <<"root", "/", "ACDC", "_", "mask", "/", "train", "_", "mask">>

\* names a mask folder may hold: the two masks of the folder, a name without
\* "_", names with "_mask" and "_caption" in the stem, and a label written
\* with a real space
MaskNames ==
  {basename(Mask1), basename(Mask2),
   <<"heart", ".", "png">>,
   <<"p1", "_", "mask", ".", "png">>,
   <<"p1", "_", "caption", ".", "png">>,
   <<"p1", "_", "MRI", "_", "heart", "_", "left", " ", "ventricle", ".", "png">>}

\* glob.glob(mask_dir/*.png) over the folders of one run
MaskFiles ==
  {d \o <<"/">> \o n : d \in {MaskDir, TestMaskDir, NestedMaskDir}, n \in MaskNames}

\* two masks of one run, each about to be handled by its own task
InitPaths ==
  /\ PipelineIdle
  /\ SimpleIdle
  /\ ConvertIdle
  /\ summary = NoTotals
  /\ derived \in {[listing |-> <<a, b>>, out |-> <<>>] :
                    a \in MaskFiles, b \in MaskFiles}
  /\ derived.listing[1] # derived.listing[2]
  /\ shard = NoShard

\* the next task derives its caption path and its label, with each script's
\* helper
Derive ==
  /\ Len(derived.out) < Len(derived.listing)
  /\ LET mask_path == derived.listing[Len(derived.out) + 1]
     IN derived' = [derived EXCEPT !.out = Append(@,
          [caption_path |-> mask_to_caption_path(mask_path),
           txt_path     |-> mask_to_caption_txt_path(mask_path),
           wds_txt      |-> mask_path_to_caption_txt(mask_path),
           target       |-> extract_metadata_from_filename(mask_path).target,
           organ        |-> extract_organ_phrase_from_filename(mask_path)])]
  /\ UNCHANGED <<script, stub, CONCURRENCY, MAX_CAPTION_WORDS, FORCE_REGEN, fs,
                 sem, task, doneq, completed, sched, run, writes, validAtStart,
                 probe, shard, credential, dirs, entries, folder, finished,
                 summary, others>>

NextPaths == Derive

SpecPaths == InitPaths /\ [][NextPaths]_vars

\* both masks of the listing have been handled
Derived == Len(derived.out) = 2

\* C22: any two distinct mask files of one run get distinct caption paths, from
\* mask_to_caption_path as from mask_to_caption_txt_path, so that no two
\* concurrent tasks write the same file.
C22_DistinctCaptionPaths ==
  (Derived /\ derived.listing[1] # derived.listing[2]) =>
    /\ derived.out[1].caption_path # derived.out[2].caption_path
    /\ derived.out[1].txt_path # derived.out[2].txt_path

\* the final "_"-delimited token of the stem of a mask's file name
LastToken(mask_path) ==
  LET parts == split_on(splitext_root(basename(mask_path)), "_")
  IN parts[Len(parts)]

HasSpace(s) == \E i \in 1..Len(s) : s[i] = " "

\* the masks handled so far, as indices of the listing
Handled == 1..Len(derived.out)

\* C23 as stated: for every mask file name the target is the final token with
\* every "+" replaced by a space, the token can be recovered from the target by
\* writing "+" for each space, and both extractors return the same target.
C23_LabelIsLossless ==
  \A i \in Handled :
    LET token == LastToken(derived.listing[i])
    IN /\ derived.out[i].target = replace(token, <<"+">>, <<" ">>)
       /\ replace(derived.out[i].target, <<" ">>, <<"+">>) = token
       /\ derived.out[i].organ = derived.out[i].target

\* C23, amended: the target is the final token with every "+" replaced by a
\* space and both extractors agree, for every file name; the token is
\* recovered from the target whenever it holds no space of its own.
C23_LabelOfConventionalNames ==
  \A i \in Handled :
    LET token == LastToken(derived.listing[i])
    IN /\ derived.out[i].target = replace(token, <<"+">>, <<" ">>)
       /\ derived.out[i].organ = derived.out[i].target
       /\ ~HasSpace(token) =>
            replace(derived.out[i].target, <<" ">>, <<"+">>) = token

\* left+ventricle was read as "left ventricle" by both extractors, and a name
\* without "_" was handled too
C23_Witness ==
  /\ Derived
  /\ LastToken(derived.listing[1]) = <<"left", "+", "ventricle">>
  /\ derived.out[1].target = <<"left", " ", "ventricle">>
  /\ derived.out[1].organ = <<"left", " ", "ventricle">>
  /\ derived.listing[2] = MaskDir \o <<"/", "heart", ".", "png">>
  /\ derived.out[2].target = <<"heart">>

\* the number of places where "_mask" occurs in s
RECURSIVE MaskOccurrences(_)
MaskOccurrences(s) ==
  IF s = <<>> THEN 0
  ELSE (IF IsPrefix(<<"_", "mask">>, s) THEN 1 ELSE 0) + MaskOccurrences(Tail(s))

\* exactly one directory segment of the path ends in "_mask", and "_mask"
\* occurs nowhere else in the path
OneMaskSegment(mask_path) ==
  LET parts == split_on(mask_path, "/")
      ends(p) == Len(p) >= 2 /\ SubSeq(p, Len(p) - 1, Len(p)) = <<"_", "mask">>
  IN /\ Cardinality({i \in 1..(Len(parts) - 1) : ends(parts[i])}) = 1
     /\ MaskOccurrences(mask_path) = 1

\* C24: for every mask path with exactly one directory segment ending in
\* "_mask" and no other "_mask" in it, the whole-path derivation
\* (mask_to_caption_path) and the path-segment derivations
\* (mask_to_caption_txt_path, mask_path_to_caption_txt) return the same path.
C24_DerivationsAgree ==
  \A i \in Handled :
    OneMaskSegment(derived.listing[i]) =>
      /\ derived.out[i].caption_path = derived.out[i].txt_path
      /\ derived.out[i].caption_path = derived.out[i].wds_txt

\* a mask of train_mask got the same path from all three derivations, and a
\* mask of ACDC_mask/train_mask, outside the precondition, did not
C24_Witness ==
  /\ Derived
  /\ derived.listing[1] = Mask2
  /\ OneMaskSegment(derived.listing[1])
  /\ derived.out[1].caption_path = derived.out[1].txt_path
  /\ derived.out[1].txt_path = derived.out[1].wds_txt
  /\ derived.out[1].txt_path =
       <<"root", "/", "ACDC", "/", "train", "_", "caption", "/", "p1", "_", "T1",
         "_", "brain", "_", "left", "+", "ventricle", ".", "txt">>
  /\ dirname(derived.listing[2]) = NestedMaskDir
  /\ ~OneMaskSegment(derived.listing[2])
  /\ derived.out[2].caption_path # derived.out[2].txt_path

\* C25: permits never leak.  The permits held are exactly those of the tasks
\* inside the gated section, between 0 and CONCURRENCY of them; when every
\* task of a folder has ended (written, failed for good, or stopped by an
\* exception) all permits are free, and the next folder starts with the full
\* capacity of the shared semaphore.
C25_PermitsNeverLeak ==
  /\ [](/\ sem \in 0..CONCURRENCY
        /\ CONCURRENCY - sem = Cardinality(InFlight)
        /\ (\A t \in Tasks : task[t].pc = "done") => sem = CONCURRENCY)
  /\ [][folder' > folder =>
          /\ sem' = CONCURRENCY
          /\ \A t \in Tasks : task'[t] = NewTask]_vars

\* the second folder starts with both permits free after a first folder in
\* which one call failed for good and one write raised inside the gate
C25_Witness ==
  /\ folder = 2 /\ CONCURRENCY = 2 /\ sem = 2
  /\ \A t \in Tasks : task[t].pc = "new"
  /\ finished[1].task[1].outcome \in {"failed", "retry_error"}
  /\ finished[1].task[2].outcome = "write_failed"

\* ------------------------------------------------------ the shard builders
\* build_webdataset of build_acdc_seg_webdataset and build_wds_for_one_split
\* of build_biomedparse_webdataset: one call, one sink.

\* the number of masks the mask folder may hold
MaskCount == 4

\* build_acdc_seg_webdataset: the cap on the samples of the dataset
\* (300 in the script)
MAX_SAMPLES == 3

\* build_biomedparse_webdataset: the cap on the local copies (10 in the script)
MAX_SAMPLES_TO_SAVE == 1

Builders == {"acdc_seg", "biomedparse"}

\* f"{n:06d}" as its six digits
ZeroPadded6(n) == [i \in 1..6 |-> (n \div (10 ^ (6 - i))) % 10]

\* key = f"sample-{count:06d}"
SampleKey(n) == [prefix |-> "sample-", digits |-> ZeroPadded6(n)]

\* how the loop body may go for one mask:
\*   "no_image", "no_question"  a file is missing, the body continues
\*   "load_raises"   opening, concatenating or reading raises before the write
\*   "sink_raises"   sink.write raises, the sample is not in the shard
\*   "save_raises"   the sample is in the shard, saving the local copy raises
\*   "ok"            the body reaches its end
ItemOutcomes ==
  {"no_image", "no_question", "load_raises", "sink_raises", "save_raises", "ok"}

\* the function has found n masks and has not opened its sink yet
InitShards ==
  /\ PipelineIdle
  /\ derived = NoDerived
  /\ summary = NoTotals
  /\ SimpleIdle
  /\ ConvertIdle
  /\ shard \in {[NoShard EXCEPT !.builder = b, !.pc = "found", !.todo = n] :
                  b \in Builders, n \in 0..MaskCount}

\* no mask: the function returns; otherwise the sink is opened, and
\* build_webdataset keeps the first MAX_SAMPLES masks
OpenSink ==
  /\ shard.pc = "found"
  /\ shard' =
       IF shard.todo = 0 THEN [shard EXCEPT !.pc = "end"]
       ELSE [shard EXCEPT
               !.pc = "loop",
               !.todo = IF shard.builder = "acdc_seg" /\ @ > MAX_SAMPLES
                        THEN MAX_SAMPLES ELSE @]
  /\ UNCHANGED <<script, stub, CONCURRENCY, MAX_CAPTION_WORDS, FORCE_REGEN, fs,
                 sem, task, doneq, completed, sched, run, writes, validAtStart,
                 probe, derived, credential, dirs, entries, folder, finished,
                 summary, others>>

\* build_webdataset: one iteration of "for mask_path in mask_paths"
BuildWebdatasetItem(o) ==
  /\ shard.builder = "acdc_seg" /\ shard.pc = "loop" /\ shard.todo > 0
  /\ LET key == SampleKey(shard.count) IN
       shard' =
         CASE o \in {"no_image", "no_question", "load_raises", "sink_raises"} ->
                [shard EXCEPT !.todo = @ - 1]
           [] o = "save_raises" ->
                [shard EXCEPT !.todo = @ - 1, !.sink = Append(@, key)]
           [] OTHER ->
                [shard EXCEPT
                   !.todo = IF shard.count + 1 >= MAX_SAMPLES THEN 0 ELSE @ - 1,
                   !.sink = Append(@, key),
                   !.samples = @ \cup {key},
                   !.count = @ + 1]
  /\ UNCHANGED <<script, stub, CONCURRENCY, MAX_CAPTION_WORDS, FORCE_REGEN, fs,
                 sem, task, doneq, completed, sched, run, writes, validAtStart,
                 probe, derived, credential, dirs, entries, folder, finished,
                 summary, others>>

\* build_wds_for_one_split: one iteration of "for mask_path in tqdm(...)";
\* RANDOM_SAMPLE_SAVE is False, the first MAX_SAMPLES_TO_SAVE samples written
\* are also saved locally
BuildWdsForOneSplitItem(o) ==
  /\ shard.builder = "biomedparse" /\ shard.pc = "loop" /\ shard.todo > 0
  /\ LET key   == SampleKey(shard.count)
         saves == MAX_SAMPLES_TO_SAVE > 0 /\ shard.count < MAX_SAMPLES_TO_SAVE
     IN /\ o = "save_raises" => saves
        /\ shard' =
             CASE o \in {"no_image", "no_question"} ->
                    [shard EXCEPT !.todo = @ - 1, !.skipped = @ + 1]
               [] o \in {"load_raises", "sink_raises"} ->
                    [shard EXCEPT !.todo = @ - 1, !.failed = @ + 1]
               [] o = "save_raises" ->
                    [shard EXCEPT !.todo = @ - 1, !.sink = Append(@, key),
                                  !.failed = @ + 1]
               [] OTHER ->
                    [shard EXCEPT
                       !.todo = @ - 1,
                       !.sink = Append(@, key),
                       !.samples = IF saves THEN @ \cup {key} ELSE @,
                       !.count = @ + 1]
  /\ UNCHANGED <<script, stub, CONCURRENCY, MAX_CAPTION_WORDS, FORCE_REGEN, fs,
                 sem, task, doneq, completed, sched, run, writes, validAtStart,
                 probe, derived, credential, dirs, entries, folder, finished,
                 summary, others>>

\* the loop is over: the "with" block closes the sink, the totals are printed
CloseSink ==
  /\ shard.pc = "loop" /\ shard.todo = 0
  /\ shard' = [shard EXCEPT !.pc = "end"]
  /\ UNCHANGED <<script, stub, CONCURRENCY, MAX_CAPTION_WORDS, FORCE_REGEN, fs,
                 sem, task, doneq, completed, sched, run, writes, validAtStart,
                 probe, derived, credential, dirs, entries, folder, finished,
                 summary, others>>

NextShards ==
  \/ OpenSink
  \/ \E o \in ItemOutcomes : BuildWebdatasetItem(o)
  \/ \E o \in ItemOutcomes : BuildWdsForOneSplitItem(o)
  \/ CloseSink

SpecShards == InitShards /\ [][NextShards]_vars

\* C26: every sample written to the sink in one run of a shard builder has a
\* key "sample-<counter>" distinct from the key of every sample written
\* before it in that run, whatever the outcomes of the items, an item whose
\* local copy fails to save after its sink write included.
C26_KeysAreDistinct ==
  \A i, j \in 1..Len(shard.sink) : i # j => shard.sink[i] # shard.sink[j]

\* C27: after a non-dry run of the converter every file found is counted once,
\* images_converted + gifs_converted + skipped_existing + failed =
\* images_found + gifs_found, and every converted file was deleted,
\* images_deleted = images_converted and gifs_deleted = gifs_converted,
\* whatever the outcomes of the files.
C27_CountersAddUp ==
  (conv.pc = "end" /\ ~args.dry_run) =>
    /\ ConvertedCount(stats) + stats.skipped_existing + stats.failed
         = stats.images_found + stats.gifs_found
    /\ stats.images_deleted = stats.images_converted
    /\ stats.gifs_deleted = stats.gifs_converted

====
